---- MODULE Spec2Model ----
(***************************************************************************)
(* FIR filter bank (windowed-sinc design, causal FIR filtering) and the    *)
(* Tk session around it, after src/project.py.                             *)
(*                                                                         *)
(* Real numbers are fixed-point integers with ONE standing for 1.0         *)
(* (numpy computes in float64).  Signal samples are small integers, so a   *)
(* filtered sample is an exact integer sum of tap * sample products.       *)
(* The filter order is N = 2 * HalfOrder: the source has N = 512, the      *)
(* model keeps its parity (an odd number of taps) at a checkable size.     *)
(***************************************************************************)
EXTENDS Integers, Sequences, FiniteSets, TLC

\* ------------------------------------------------------------------ bounds
HalfOrder == 2
\* longest signal fed to the filter bank alone: N + ExtraLen samples
ExtraLen == 1
\* longest decoded file of a UI session
MaxFileLen == 2

\* ------------------------------------------------------- fixed-point reals
ONE == 100 * 100
PI == (31416 * ONE) \div 10000

\* F(v) with v evaluated once
Let(v, F(_)) == CHOOSE r \in {F(w) : w \in {v}} : TRUE

Abs(a) == IF a < 0 THEN -a ELSE a

\* a / b rounded to the nearest integer, b # 0
RDiv[a \in Int, b \in Int] ==
    IF b < 0 THEN (2 * (-a) - b) \div (2 * (-b))
    ELSE (2 * a + b) \div (2 * b)

Mul[a \in Int, b \in Int] == RDiv[a * b, ONE]

GCD[a \in Nat, b \in Nat] == IF b = 0 THEN a ELSE GCD[b, a % b]

\* cos of an angle of a/b turn, 0 <= a/b <= 1/4, by its Taylor series
CosQ[a \in Nat, b \in Nat] ==
    IF a = 0 THEN ONE
    ELSE IF 4 * a = b THEN 0
    ELSE LET xr == RDiv[2 * PI * a, b]
             x2 == Mul[xr, xr]
             t5 == ONE - RDiv[x2, 90]
             t4 == ONE - RDiv[Mul[x2, t5], 56]
             t3 == ONE - RDiv[Mul[x2, t4], 30]
             t2 == ONE - RDiv[Mul[x2, t3], 12]
         IN ONE - RDiv[Mul[x2, t2], 2]

\* cos(2 * pi * r / q) for 0 <= r < q, by the quadrant of the angle
CosReduced[r \in Nat, q \in Nat] ==
    IF 4 * r <= q THEN CosQ[r, q]
    ELSE IF 4 * r <= 2 * q THEN -CosQ[q - 2 * r, 2 * q]
    ELSE IF 4 * r <= 3 * q THEN -CosQ[2 * r - q, 2 * q]
    ELSE CosQ[q - r, q]

\* numpy.cos(2 * pi * p / q), q > 0
CosTurn[p \in Int, q \in Nat] ==
    CosReduced[(p \div GCD[Abs(p), q]) % (q \div GCD[Abs(p), q]),
               q \div GCD[Abs(p), q]]

\* numpy.sin(2 * pi * p / q), q > 0
SinTurn[p \in Int, q \in Nat] == CosTurn[4 * p - q, 4 * q]

\* ------------------------------------------------------ program constants
fs == 8000
N == 2 * HalfOrder
fc_low == 1000
fc_band == <<1000, 2000>>
fc_high == 2000

\* a frequency as a fraction of the Nyquist frequency: fc / (fs / 2), in
\* lowest terms
Frac(fc) ==
    [n |-> (2 * fc) \div GCD[Abs(2 * fc), fs], d |-> fs \div GCD[Abs(2 * fc), fs]]

Wn_low == <<Frac(fc_low)>>
Wn_band == <<Frac(fc_band[1]), Frac(fc_band[2])>>
Wn_high == <<Frac(fc_high)>>

\* --------------------------------------------------------- scipy.signal.firwin
Rational == [n : Int, d : Nat]
Band == [left : Rational, right : Rational]

Raise(kind) == [ok |-> FALSE, err |-> kind, taps |-> <<>>]

\* the cutoffs firwin refuses: "frequencies must be greater than 0 and less
\* than fs/2", "the frequencies must be strictly increasing"
BadCutoff(cutoff) ==
    \/ Len(cutoff) = 0
    \/ \E i \in 1..Len(cutoff) : cutoff[i].n <= 0 \/ cutoff[i].n >= cutoff[i].d
    \/ \E i \in 1..(Len(cutoff) - 1) :
           cutoff[i + 1].n * cutoff[i].d <= cutoff[i].n * cutoff[i + 1].d

\* pass_zero given as a string must fit the number of cutoffs
BadBandType(cutoff, pass_zero) ==
    \/ pass_zero \in {"lowpass", "highpass"} /\ Len(cutoff) # 1
    \/ pass_zero \in {"bandpass", "bandstop"} /\ Len(cutoff) <= 1
    \/ pass_zero \notin {"lowpass", "highpass", "bandpass", "bandstop"}

PassZero(pass_zero) == pass_zero \in {"lowpass", "bandstop"}
PassNyquist(cutoff, pass_zero) == (Len(cutoff) % 2 = 1) # PassZero(pass_zero)

\* cutoff = hstack(([0.0] * pass_zero, cutoff, [1.0] * pass_nyquist)), read
\* in pairs (left, right)
Edges(cutoff, pass_zero) ==
    (IF PassZero(pass_zero) THEN <<[n |-> 0, d |-> 1]>> ELSE <<>>)
    \o cutoff
    \o (IF PassNyquist(cutoff, pass_zero) THEN <<[n |-> 1, d |-> 1]>> ELSE <<>>)

Bands(cutoff, pass_zero) ==
    Let(Edges(cutoff, pass_zero), LAMBDA e :
        [b \in 1..(Len(e) \div 2) |-> [left |-> e[2 * b - 1], right |-> e[2 * b]]])

\* c * sinc(c * m) = sin(pi * c * m) / (pi * m), and c at m = 0; m = m2 / 2
SincTerm[c \in Rational, m2 \in Int] ==
    IF m2 = 0 THEN RDiv[c.n * ONE, c.d]
    ELSE RDiv[2 * SinTurn[c.n * Abs(m2), 4 * c.d] * ONE, PI * Abs(m2)]

\* h[m]: the sum over the bands of right * sinc(right * m) - left * sinc(left * m)
Ideal[bands \in Seq(Band), m2 \in Int] ==
    IF bands = <<>> THEN 0
    ELSE SincTerm[Head(bands).right, m2] - SincTerm[Head(bands).left, m2]
         + Ideal[Tail(bands), m2]

\* get_window(window, numtaps, fftbins=False)[n]
Window[window \in {"hamming", "blackman"}, numtaps \in Nat, n \in Nat] ==
    IF numtaps <= 1 THEN ONE
    ELSE IF window = "hamming"
         THEN RDiv[54 * ONE, 100] - RDiv[46 * CosTurn[n, numtaps - 1], 100]
         ELSE RDiv[42 * ONE, 100] - RDiv[50 * CosTurn[n, numtaps - 1], 100]
              + RDiv[8 * CosTurn[2 * n, numtaps - 1], 100]

\* the windowed, unscaled taps: h *= win
Windowed(numtaps, cutoff, window, pass_zero) ==
    Let(Bands(cutoff, pass_zero), LAMBDA bands :
        [i \in 1..numtaps |->
            Mul[Ideal[bands, 2 * (i - 1) - (numtaps - 1)],
                Window[window, numtaps, i - 1]]])

\* cos(pi * m * scale_frequency) for the first band (left, right)
ScaleCos[band \in Band, m2 \in Int] ==
    IF band.left.n = 0 THEN ONE
    ELSE IF band.right.n = band.right.d THEN CosTurn[m2, 4]
    ELSE CosTurn[m2 * (band.left.n * band.right.d + band.right.n * band.left.d),
                 8 * band.left.d * band.right.d]

Sum[s \in Seq(Int)] == IF s = <<>> THEN 0 ELSE Head(s) + Sum[Tail(s)]

\* firwin with scale=False: the windowed taps as they are
Scaled_off(h, band) == h

\* scale=True: h /= sum(h * c), unity gain at the scale frequency
Scaled(h, band) ==
    Let(<<h, band>>, LAMBDA hb :
    Let(Sum[[i \in 1..Len(hb[1]) |->
                Mul[hb[1][i], ScaleCos[hb[2], 2 * (i - 1) - (Len(hb[1]) - 1)]]]],
        LAMBDA s : [i \in 1..Len(hb[1]) |-> RDiv[hb[1][i] * ONE, s]]))

firwin(numtaps, cutoff, window, pass_zero) ==
    IF BadCutoff(cutoff) THEN Raise("ValueError")
    ELSE IF BadBandType(cutoff, pass_zero) THEN Raise("ValueError")
    ELSE IF PassNyquist(cutoff, pass_zero) /\ numtaps % 2 = 0 THEN Raise("ValueError")
    ELSE [ok |-> TRUE, err |-> "",
          taps |-> Scaled(Windowed(numtaps, cutoff, window, pass_zero),
                          Bands(cutoff, pass_zero)[1])]

\* ------------------------------------------------------- design_filters()
FilterNames ==
    <<"Low_Hamming", "Band_Hamming", "High_Hamming",
      "Low_Blackman", "Band_Blackman", "High_Blackman">>

NameSet == {FilterNames[i] : i \in 1..Len(FilterNames)}

NoValue == [k \in {} |-> <<>>]

\* the display with the two lowpass windows exchanged
Entries_swapped(wl, wb, wh) ==
    <<firwin(N + 1, wl, "blackman", "lowpass"),
      firwin(N + 1, wb, "hamming", "bandpass"),
      firwin(N + 1, wh, "hamming", "highpass"),
      firwin(N + 1, wl, "hamming", "lowpass"),
      firwin(N + 1, wb, "blackman", "bandpass"),
      firwin(N + 1, wh, "blackman", "highpass")>>

\* the dict display of design_filters, its six firwin calls in order, over the
\* module globals it reads
Entries(wl, wb, wh) ==
    <<firwin(N + 1, wl, "hamming", "lowpass"),
      firwin(N + 1, wb, "hamming", "bandpass"),
      firwin(N + 1, wh, "hamming", "highpass"),
      firwin(N + 1, wl, "blackman", "lowpass"),
      firwin(N + 1, wb, "blackman", "bandpass"),
      firwin(N + 1, wh, "blackman", "highpass")>>

\* a design that hands back the filters built before the failing call
Design_partial(wl, wb, wh) ==
    Let(Entries(wl, wb, wh), LAMBDA e :
        LET bad == {i \in 1..Len(e) : ~e[i].ok}
            firstBad == CHOOSE i \in bad : \A j \in bad : i <= j
        IN IF bad = {}
           THEN [ok |-> TRUE, err |-> "", designed |-> Len(e),
                 value |-> [k \in NameSet |->
                               e[CHOOSE i \in 1..Len(e) : FilterNames[i] = k].taps]]
           ELSE [ok |-> FALSE, err |-> e[firstBad].err, designed |-> firstBad - 1,
                 value |-> [k \in {FilterNames[i] : i \in 1..(firstBad - 1)} |->
                               e[CHOOSE i \in 1..Len(e) : FilterNames[i] = k].taps]])

\* the first call that raises ends the display: no dict is built
Design(wl, wb, wh) ==
    Let(Entries(wl, wb, wh), LAMBDA e :
        LET bad == {i \in 1..Len(e) : ~e[i].ok}
            firstBad == CHOOSE i \in bad : \A j \in bad : i <= j
        IN IF bad = {}
           THEN [ok |-> TRUE, err |-> "", designed |-> Len(e),
                 value |-> [k \in NameSet |->
                               e[CHOOSE i \in 1..Len(e) : FilterNames[i] = k].taps]]
           ELSE [ok |-> FALSE, err |-> e[firstBad].err, designed |-> firstBad - 1,
                 value |-> NoValue])

design_filters == Design(Wn_low, Wn_band, Wn_high)

\* ------------------------------------------- scipy.signal.lfilter(b, 1, x)
RECURSIVE ConvSum(_, _, _, _, _)
\* sum of b[m] * v[n - m] for m in lo..hi (0-based indices)
ConvSum(b, v, n, lo, hi) ==
    IF lo > hi THEN 0
    ELSE b[lo + 1] * v[n - lo + 1] + ConvSum(b, v, n, lo + 1, hi)

Max(a, b) == IF a >= b THEN a ELSE b
Min(a, b) == IF a <= b THEN a ELSE b

\* numpy.convolve(b, v), mode 'full': Len(b) + Len(v) - 1 samples
convolve(b, v) ==
    Let(<<b, v>>, LAMBDA bv :
        [i \in 1..(Len(bv[1]) + Len(bv[2]) - 1) |->
            ConvSum(bv[1], bv[2], i - 1,
                    Max(0, i - Len(bv[2])), Min(i - 1, Len(bv[1]) - 1))])

\* the convolution cut around its centre (mode 'same'), not causally
lfilter_same(b, a, xs) ==
    IF Len(xs) = 0 THEN [ok |-> FALSE, err |-> "ValueError", out |-> <<>>]
    ELSE Let(convolve([i \in 1..Len(b) |-> b[i] \div a], xs), LAMBDA out_full :
             [ok |-> TRUE, err |-> "",
              out |-> SubSeq(out_full, (Len(b) - 1) \div 2 + 1,
                             (Len(b) - 1) \div 2 + Len(xs))])

\* the convolution not cut at all (mode 'full')
lfilter_full(b, a, xs) ==
    IF Len(xs) = 0 THEN [ok |-> FALSE, err |-> "ValueError", out |-> <<>>]
    ELSE Let(convolve([i \in 1..Len(b) |-> b[i] \div a], xs), LAMBDA out_full :
             [ok |-> TRUE, err |-> "", out |-> out_full])

\* the FIR path of lfilter (a of length 1): the full convolution cut to the
\* first Len(x) samples; numpy.convolve refuses an empty array
lfilter(b, a, xs) ==
    IF Len(xs) = 0 THEN [ok |-> FALSE, err |-> "ValueError", out |-> <<>>]
    ELSE Let(convolve([i \in 1..Len(b) |-> b[i] \div a], xs), LAMBDA out_full :
             [ok |-> TRUE, err |-> "",
              out |-> SubSeq(out_full, 1, Len(out_full) - Len(b) + 1)])

\* --------------------------------------------------------------- the state
VARIABLES
    loaded,       \* 'x' in globals()
    x, t,         \* the module globals x, t of apply_and_plot
    yset, y,      \* 'y' in globals(), and y
    selected,     \* output_choices
    comboValues,  \* combo["values"]
    status,       \* status_var
    played,       \* the sd.play call of the latest callback, if it made one
    ev,           \* the latest callback and how it ended
    run,          \* the latest apply_filters call: its input and outcome
    first,        \* the first apply_filters call, and whether its input was
                  \* filtered again after another input (stage 2)
    sig, out,     \* apply_filters on its own: the input, the outcome
    cfg, bank     \* design on its own: the globals' setting, the outcome

uiVars == <<loaded, x, t, yset, y, selected, comboValues, status, played, ev,
            run, first>>
applyVars == <<sig, out>>
designVars == <<cfg, bank>>
vars == <<uiVars, applyVars, designVars>>

\* ---------------------------------------------------------- apply_filters(x)
\* a filter bank that keeps its delay line between calls: the stored signal
\* of the run before runs into the start of the new output
apply_filters_stateful(xs) ==
    Let(design_filters, LAMBDA filters :
        IF ~filters.ok
        THEN [ok |-> FALSE, err |-> filters.err, designed |-> filters.designed,
              value |-> NoValue, applied |-> 0]
        ELSE IF Len(xs) = 0
        THEN [ok |-> FALSE, err |-> "ValueError", designed |-> filters.designed,
              value |-> NoValue, applied |-> 0]
        ELSE [ok |-> TRUE, err |-> "", designed |-> filters.designed,
              value |-> [k \in NameSet |->
                            SubSeq(lfilter(filters.value[k], 1, x \o xs).out,
                                   Len(x) + 1, Len(x) + Len(xs))],
              applied |-> Len(FilterNames)])

\* the filters are designed first, then filtered one by one in dict order;
\* the first lfilter call that raises ends the comprehension
apply_filters(xs) ==
    Let(design_filters, LAMBDA filters :
        IF ~filters.ok
        THEN [ok |-> FALSE, err |-> filters.err, designed |-> filters.designed,
              value |-> NoValue, applied |-> 0]
        ELSE Let([k \in NameSet |-> lfilter(filters.value[k], 1, xs)], LAMBDA r :
             LET bad == {i \in 1..Len(FilterNames) : ~r[FilterNames[i]].ok}
                 firstBad == CHOOSE i \in bad : \A j \in bad : i <= j
             IN IF bad = {}
                THEN [ok |-> TRUE, err |-> "", designed |-> filters.designed,
                      value |-> [k \in NameSet |-> r[k].out],
                      applied |-> Len(FilterNames)]
                ELSE [ok |-> FALSE, err |-> r[FilterNames[firstBad]].err,
                      designed |-> filters.designed, value |-> NoValue,
                      applied |-> firstBad - 1]))

\* ------------------------------------------------------------ input sets
RECURSIVE SeqsUpTo(_, _)
\* every sequence over vals of length at most n
SeqsUpTo(vals, n) ==
    IF n = 0 THEN {<<>>}
    ELSE LET shorter == SeqsUpTo(vals, n - 1)
         IN shorter \cup {Append(q, v) : q \in {r \in shorter : Len(r) = n - 1},
                                         v \in vals}

\* what librosa.load may decode a chosen file to (mono, resampled to fs)
FileSignals == SeqsUpTo({0, 1}, MaxFileLen)

\* signals fed to apply_filters on its own
ApplySignals == SeqsUpTo({-1, 0, 1}, N + ExtraLen)

\* settings of the module globals fc_low, fc_band, fc_high tried by the design
\* step on its own, the source's among them
CutoffHz == {-1000, 0, 1000, 2000, 3000, 4000, 5000}
Configs ==
    [fc_low : CutoffHz, fc_band : {<<1000, 2000>>, <<2000, 1000>>, <<1000, 1000>>,
                             <<0, 2000>>, <<1000, 4000>>, <<2000, 3000>>},
     fc_high : {1000, 2000, 4000}]

\* ------------------------------------------------- the GUI before any event
Original == "Original Signal"

NoPlay == [on |-> FALSE, data |-> <<>>, label |-> ""]
NoResult == [ok |-> FALSE, err |-> "", designed |-> 0, value |-> NoValue,
             applied |-> 0]
NoRun == [called |-> FALSE, input |-> <<>>, res |-> NoResult]
NoBank == [called |-> FALSE, res |-> NoResult]
NoFirst == [called |-> FALSE, input |-> <<>>, res |-> NoResult, stage |-> 0]
SourceCfg == [fc_low |-> fc_low, fc_band |-> fc_band, fc_high |-> fc_high]

\* the state after the module has run to root.mainloop()
UiInit ==
    /\ loaded = FALSE /\ x = <<>> /\ t = <<>>
    /\ yset = FALSE /\ y = NoValue
    /\ selected = Original
    /\ comboValues = <<Original>>
    /\ status = "Ready to process an audio file."
    /\ played = NoPlay
    /\ ev = "init"
    /\ run = NoRun
    /\ first = NoFirst

ApplyIdle == sig = <<>> /\ out = NoRun
DesignIdle == cfg = SourceCfg /\ bank = NoBank

Init == UiInit /\ ApplyIdle /\ DesignIdle

\* ------------------------------------------------------------- load_audio
\* t = np.arange(len(x)) / fs, kept as the sample indices
load_audio(s) == [x |-> s, t |-> [i \in 1..Len(s) |-> i - 1]]

\* ------------------------------------------------------------- open_file
\* the dialog is cancelled: filepath is empty
OpenFileCancel ==
    /\ status' = "No file selected bro."
    /\ ev' = "cancel"
    /\ played' = NoPlay
    /\ UNCHANGED <<loaded, x, t, yset, y, selected, comboValues, run, first>>
    /\ UNCHANGED <<applyVars, designVars>>

\* a file is chosen and librosa.load raises: apply_and_plot ends after its
\* first status update
OpenFileUnreadable ==
    /\ status' = "Processing audio... please wait."
    /\ ev' = "load_error"
    /\ played' = NoPlay
    /\ UNCHANGED <<loaded, x, t, yset, y, selected, comboValues, run, first>>
    /\ UNCHANGED <<applyVars, designVars>>

\* a load that leaves output_choices as it was
apply_and_plot_noreset(s) ==
    \E a \in {load_audio(s)} : \E res \in {apply_filters(a.x)} :
       /\ loaded' = TRUE
       /\ x' = a.x
       /\ t' = a.t
       /\ run' = [called |-> TRUE, input |-> s, res |-> res]
       /\ first' = IF ~first.called
                   THEN [called |-> TRUE, input |-> s, res |-> res, stage |-> 0]
                   ELSE IF s # first.input
                   THEN [first EXCEPT !.stage = IF @ = 0 THEN 1 ELSE @]
                   ELSE [first EXCEPT !.stage = IF @ = 1 THEN 2 ELSE @]
       /\ played' = NoPlay
       /\ IF res.ok
          THEN /\ yset' = TRUE
               /\ y' = res.value
               /\ comboValues' = <<Original>> \o FilterNames
               /\ status' = "Filtering complete! You can now play the signals."
               /\ ev' = "loaded"
               /\ UNCHANGED selected
          ELSE /\ status' = "Processing audio... please wait."
               /\ ev' = "filter_error"
               /\ UNCHANGED <<yset, y, selected, comboValues>>
       /\ UNCHANGED <<applyVars, designVars>>

\* a file is chosen and decodes to s: apply_and_plot(filepath, status_var)
apply_and_plot(s) ==
    \E a \in {load_audio(s)} : \E res \in {apply_filters(a.x)} :
       /\ loaded' = TRUE
       /\ x' = a.x
       /\ t' = a.t
       /\ run' = [called |-> TRUE, input |-> s, res |-> res]
       /\ first' = IF ~first.called
                   THEN [called |-> TRUE, input |-> s, res |-> res, stage |-> 0]
                   ELSE IF s # first.input
                   THEN [first EXCEPT !.stage = IF @ = 0 THEN 1 ELSE @]
                   ELSE [first EXCEPT !.stage = IF @ = 1 THEN 2 ELSE @]
       /\ played' = NoPlay
       /\ IF res.ok
          THEN /\ yset' = TRUE
               /\ y' = res.value
               /\ selected' = Original
               /\ comboValues' = <<Original>> \o FilterNames
               /\ status' = "Filtering complete! You can now play the signals."
               /\ ev' = "loaded"
          ELSE /\ status' = "Processing audio... please wait."
               /\ ev' = "filter_error"
               /\ UNCHANGED <<yset, y, selected, comboValues>>
       /\ UNCHANGED <<applyVars, designVars>>

OpenFile == \E s \in FileSignals : apply_and_plot(s)

\* the user picks an entry of the read-only combobox
ComboSelect ==
    /\ \E i \in 1..Len(comboValues) : selected' = comboValues[i]
    /\ ev' = "select"
    /\ played' = NoPlay
    /\ UNCHANGED <<loaded, x, t, yset, y, comboValues, status, run, first>>
    /\ UNCHANGED <<applyVars, designVars>>

\* ----------------------------------------------------------- play_selected
play_audio(audio_data, label) == [on |-> TRUE, data |-> audio_data, label |-> label]

\* a lookup that falls back to the original for a name it does not know
play_selected_fallback ==
    /\ IF ~loaded
       THEN /\ status' = "Please load an audio file first bro."
            /\ played' = NoPlay
            /\ ev' = "play_refused"
       ELSE IF selected = Original
       THEN /\ played' = play_audio(x, Original)
            /\ ev' = "play"
            /\ UNCHANGED status
       ELSE IF ~yset
       THEN /\ played' = NoPlay
            /\ ev' = "play_nameerror"
            /\ UNCHANGED status
       ELSE IF selected \in DOMAIN y
       THEN /\ played' = play_audio(y[selected], selected)
            /\ ev' = "play"
            /\ UNCHANGED status
       ELSE /\ played' = play_audio(x, Original)
            /\ ev' = "play"
            /\ UNCHANGED status
    /\ UNCHANGED <<loaded, x, t, yset, y, selected, comboValues, run, first>>
    /\ UNCHANGED <<applyVars, designVars>>

play_selected ==
    /\ IF ~loaded
       THEN /\ status' = "Please load an audio file first bro."
            /\ played' = NoPlay
            /\ ev' = "play_refused"
       ELSE IF selected = Original
       THEN /\ played' = play_audio(x, Original)
            /\ ev' = "play"
            /\ UNCHANGED status
       ELSE IF ~yset
       THEN /\ played' = NoPlay
            /\ ev' = "play_nameerror"
            /\ UNCHANGED status
       ELSE IF selected \in DOMAIN y
       THEN /\ played' = play_audio(y[selected], selected)
            /\ ev' = "play"
            /\ UNCHANGED status
       ELSE /\ status' = "Invalid selection."
            /\ played' = NoPlay
            /\ ev' = "play_invalid"
    /\ UNCHANGED <<loaded, x, t, yset, y, selected, comboValues, run, first>>
    /\ UNCHANGED <<applyVars, designVars>>

Next ==
    \/ OpenFileCancel
    \/ OpenFileUnreadable
    \/ OpenFile
    \/ ComboSelect
    \/ play_selected

Spec == Init /\ [][Next]_vars

\* ------------------------------------------- apply_filters alone, any input
ApplyInit == UiInit /\ DesignIdle /\ sig \in ApplySignals /\ out = NoRun

Apply ==
    /\ ~out.called
    /\ out' = [called |-> TRUE, input |-> sig, res |-> apply_filters(sig)]
    /\ UNCHANGED <<sig, uiVars, designVars>>

SpecApply == ApplyInit /\ [][Apply]_vars

\* ------------------------------- design alone, over settings of the globals
DesignInit == UiInit /\ ApplyIdle /\ cfg \in Configs /\ bank = NoBank

DesignStep ==
    /\ ~bank.called
    /\ bank' = [called |-> TRUE,
                res |-> Design(<<Frac(cfg.fc_low)>>,
                               <<Frac(cfg.fc_band[1]), Frac(cfg.fc_band[2])>>,
                               <<Frac(cfg.fc_high)>>)]
    /\ UNCHANGED <<cfg, uiVars, applyVars>>

SpecDesign == DesignInit /\ [][DesignStep]_vars

\* ------------------------ play_selected alone, over sessions and selections
LookupNames == {Original} \cup NameSet \cup {"Low_Hann", "Notch_Hamming"}

\* a session before any load, one whose only load stopped in apply_filters
\* (x stored, y not), or one after a completed load of s; output_choices set
\* to any name
LookupInit ==
    /\ ApplyIdle /\ DesignIdle
    /\ selected \in LookupNames
    /\ played = NoPlay /\ ev = "init" /\ first = NoFirst
    /\ \/ /\ loaded = FALSE /\ x = <<>> /\ t = <<>> /\ yset = FALSE /\ y = NoValue
          /\ comboValues = <<Original>>
          /\ status = "Ready to process an audio file."
          /\ run = NoRun
       \/ \E s \in FileSignals : \E res \in {apply_filters(s)} :
          /\ loaded = TRUE /\ x = s /\ t = load_audio(s).t
          /\ yset = res.ok /\ y = res.value
          /\ comboValues = IF res.ok THEN <<Original>> \o FilterNames
                           ELSE <<Original>>
          /\ status = IF res.ok
                      THEN "Filtering complete! You can now play the signals."
                      ELSE "Processing audio... please wait."
          /\ run = [called |-> TRUE, input |-> s, res |-> res]

SpecLookup == LookupInit /\ [][play_selected]_vars

\* ===========================================================================
\* The claims
\* ===========================================================================
Tol == ONE \div 1000

CanonicalNames ==
    {"Low_Hamming", "Band_Hamming", "High_Hamming",
     "Low_Blackman", "Band_Blackman", "High_Blackman"}

RECURSIVE CausalSum(_, _, _, _)
\* h[k] * xs[i - k] summed over k..min(i, M - 1), indices from 0
CausalSum(h, xs, i, k) ==
    IF k > i \/ k > Len(h) - 1 THEN 0
    ELSE h[k + 1] * xs[i - k + 1] + CausalSum(h, xs, i, k + 1)

\* C1: for every non-empty signal and every designed filter h, apply_filters
\* returns, at each index i of the signal, exactly the causal zero-padded
\* sum of h[k] * x[i-k] over k = 0..min(i, M-1): nothing is scaled or clipped.
C1_CausalConvolution ==
    (out.called /\ Len(sig) > 0) =>
        /\ out.res.ok
        /\ \A k \in CanonicalNames : \A i \in 0..(Len(sig) - 1) :
               out.res.value[k][i + 1]
                   = CausalSum(design_filters.value[k], sig, i, 0)

\* a signal longer than the filter order was filtered and an output sample
\* left the range of the input samples
C1_Witness ==
    /\ out.called /\ out.res.ok /\ Len(sig) > N
    /\ \E k \in CanonicalNames : \E i \in 1..Len(sig) :
           Abs(out.res.value[k][i]) > ONE

\* C2: apply_filters returns for every non-empty signal, and a result it
\* returns holds exactly the six canonical names, each filtered signal with
\* as many samples as the input.
C2_SixNamesSameLength ==
    /\ (out.called /\ Len(sig) > 0) => out.res.ok
    /\ (out.called /\ out.res.ok) =>
        /\ DOMAIN out.res.value = CanonicalNames
        /\ \A k \in CanonicalNames : Len(out.res.value[k]) = Len(sig)

C2_Witness ==
    out.called /\ out.res.ok /\ Len(sig) = N + ExtraLen /\ sig[1] = -1

\* the band type and window each canonical name states
FilterSpec ==
    [Low_Hamming |-> [window |-> "hamming", band_type |-> "lowpass"],
     Band_Hamming |-> [window |-> "hamming", band_type |-> "bandpass"],
     High_Hamming |-> [window |-> "hamming", band_type |-> "highpass"],
     Low_Blackman |-> [window |-> "blackman", band_type |-> "lowpass"],
     Band_Blackman |-> [window |-> "blackman", band_type |-> "bandpass"],
     High_Blackman |-> [window |-> "blackman", band_type |-> "highpass"]]

CutoffsOf(c, band_type) ==
    IF band_type = "lowpass" THEN <<Frac(c.fc_low)>>
    ELSE IF band_type = "highpass" THEN <<Frac(c.fc_high)>>
    ELSE <<Frac(c.fc_band[1]), Frac(c.fc_band[2])>>

\* the zero-phase gain of symmetric taps h at p/q of the sampling frequency
GainAt(h, p, q) ==
    Sum[[i \in 1..Len(h) |->
            Mul[h[i], CosTurn[(2 * (i - 1) - (Len(h) - 1)) * p, 2 * q]]]]

\* the frequency, as p/q of fs, at which a band type passes with gain one:
\* 0 Hz, the band's centre, the Nyquist frequency
PassbandRef(c, band_type) ==
    IF band_type = "lowpass" THEN <<0, 1>>
    ELSE IF band_type = "highpass" THEN <<1, 2>>
    ELSE <<c.fc_band[1] + c.fc_band[2], 2 * fs>>

\* C3: the design step returns exactly the six canonical keys, each bound to
\* order + 1 taps of the band type and window its name states (the windowed
\* sinc of that band and window, with unit gain at that band's reference
\* frequency); with the source's cutoffs it returns.
C3_SixFiltersOfOrderPlusOneTaps ==
    /\ (bank.called /\ cfg = SourceCfg) => bank.res.ok
    /\ (bank.called /\ bank.res.ok) =>
        /\ DOMAIN bank.res.value = CanonicalNames
        /\ \A k \in CanonicalNames :
            /\ Len(bank.res.value[k]) = N + 1
            /\ bank.res.value[k]
                 = firwin(N + 1, CutoffsOf(cfg, FilterSpec[k].band_type),
                          FilterSpec[k].window, FilterSpec[k].band_type).taps
            /\ Abs(GainAt(bank.res.value[k],
                          PassbandRef(cfg, FilterSpec[k].band_type)[1],
                          PassbandRef(cfg, FilterSpec[k].band_type)[2]) - ONE)
                 <= Tol

C3_Witness ==
    /\ bank.called /\ cfg = SourceCfg /\ bank.res.ok
    /\ bank.res.value["Low_Hamming"] # bank.res.value["High_Hamming"]
    /\ bank.res.value["Low_Hamming"] # bank.res.value["Low_Blackman"]

\* C4: apply_filters on a zero-length signal fails before any per-filter
\* work: no filter has been designed or applied and no mapping is produced.
C4_EmptyFailsBeforeAnyWork ==
    (out.called /\ Len(sig) = 0) =>
        /\ ~out.res.ok
        /\ out.res.designed = 0
        /\ out.res.applied = 0
        /\ out.res.value = NoValue

PlayEvents == {"play", "play_refused", "play_invalid", "play_nameerror"}

KnownNames == {Original} \cup (IF yset THEN DOMAIN y ELSE {})

InvalidCfg(c) ==
    \/ \E f \in {c.fc_low, c.fc_high, c.fc_band[1], c.fc_band[2]} : f <= 0 \/ 2 * f >= fs
    \/ c.fc_band[1] >= c.fc_band[2]

\* C6: the design step fails whenever a cutoff is <= 0 or >= fs/2 or the
\* band cutoffs are not strictly increasing, and then returns no filter.
C6_InvalidSpecRejected ==
    (bank.called /\ InvalidCfg(cfg)) =>
        /\ ~bank.res.ok
        /\ bank.res.err = "ValueError"
        /\ bank.res.value = NoValue

\* the reversed band [2000, 1000] with valid low and high cutoffs is refused
\* after the first filter had been designed
C6_Witness ==
    /\ bank.called /\ cfg.fc_band = <<2000, 1000>>
    /\ cfg.fc_low = fc_low /\ cfg.fc_high = fc_high
    /\ ~bank.res.ok /\ bank.res.designed = 1

\* C7: whenever an original signal is stored, the stored result is the
\* result of one filtering run on that signal.
C7_ResultIsOfStoredOriginal ==
    loaded => (yset /\ \E res \in {apply_filters(x)} : res.ok /\ y = res.value)

AllOnes(s) == \A i \in 1..Len(s) : s[i] = 1

\* C9: a DC signal of ones longer than the order leaves each lowpass filter
\* at 1.0 within 1e-3 at every index from the order on.
C9_LowpassUnityDC ==
    (out.called /\ AllOnes(sig) /\ Len(sig) > N) =>
        /\ out.res.ok
        /\ \A k \in {"Low_Hamming", "Low_Blackman"} : \A i \in N..(Len(sig) - 1) :
               Abs(out.res.value[k][i + 1] - ONE) <= Tol

C9_Witness ==
    out.called /\ out.res.ok /\ AllOnes(sig) /\ Len(sig) = N + ExtraLen

\* C10: playback is started only of the stored original or of an entry of
\* the stored result; before a signal is stored play_selected plays nothing
\* and asks for a file; the dropdown offers a filter name only when the
\* stored result holds it, only "Original Signal" before any load, and a
\* completed load resets the selection to "Original Signal".
C10_PlaysOnlyStoredSignals ==
    /\ played.on =>
          /\ loaded
          /\ \/ played.label = Original /\ played.data = x
             \/ /\ yset /\ played.label \in DOMAIN y
                /\ played.data = y[played.label]
    /\ (ev \in PlayEvents /\ ~loaded) =>
          /\ ~played.on
          /\ ev = "play_refused"
          /\ status = "Please load an audio file first bro."
    /\ \A i \in 1..Len(comboValues) :
          comboValues[i] # Original => (yset /\ comboValues[i] \in DOMAIN y)
    /\ selected \in {comboValues[i] : i \in 1..Len(comboValues)}
    /\ ~loaded => comboValues = <<Original>>
    /\ ev = "loaded" => selected = Original

\* a filtered signal of the stored result was handed to playback
C10_Witness ==
    /\ played.on /\ played.label = "Band_Blackman" /\ Len(played.data) = MaxFileLen
    /\ played.data = y["Band_Blackman"]

====
